---- MODULE Spec2Model ----
(***************************************************************************)
(* soroban-ecs (src/src/lib.rs): a contract keeping a World (entities and  *)
(* systems) and a component Register in the instance storage, under the    *)
(* three keys DataKey::Genesis, DataKey::World and DataKey::Register.      *)
(*                                                                         *)
(* Every contract entry point is one atomic action: the host runs a call   *)
(* to completion, and a call that panics leaves the storage as it was.     *)
(***************************************************************************)
EXTENDS Integers, Sequences, FiniteSets, TLC

\* ---------------------------------------------------------------- bounds
NumAddresses == 2      \* distinct Address values the callers use
MaxComponents == 2     \* longest Vec<Address> handed to spawn
MaxIssued == 3         \* spawn is not called when it would issue more bits than this in all
NumQueries == 2        \* distinct Query bitmasks the callers use

Addresses == 1 .. NumAddresses
Queries == 1 .. NumQueries
Names == {"alpha", "beta"}

\* The component vectors a caller can pass: every Vec<Address> of length
\* 0 .. MaxComponents, duplicates included.
ComponentVecs == UNION {[1 .. n -> Addresses] : n \in 0 .. MaxComponents}

\* ------------------------------------------------------ Option<T>, storage
\* Option<T>: None is the empty tuple, Some(v) the one-element tuple.  A
\* storage key that was never set reads as None.
None == << >>
Some(v) == << v >>

VARIABLES
    Genesis,    \* storage under DataKey::Genesis : Option<bool>
    World,      \* storage under DataKey::World : Option<World>
    Register,   \* storage under DataKey::Register : Option<Register>
    last,       \* the last call: entry point, arguments, outcome, and the
                \* values Register::register returned during it
    owned,      \* history: the addresses for which a register call returned
                \* a bit and no despawn has completed after genesis since
    issued      \* history: the bits the register calls returned, in order

vars == << Genesis, World, Register, last, owned, issued >>

\* ------------------------------------------------------------ Vec helpers
\* Vec::contains
contains(vec, x) == \E i \in 1 .. Len(vec) : vec[i] = x

\* Vec::remove(index), index counted from 0 as in the source
remove(vec, index) ==
    [j \in 1 .. (Len(vec) - 1) |-> IF j <= index THEN vec[j] ELSE vec[j + 1]]

IsSorted(vec) == \A i, j \in 1 .. Len(vec) : i < j => vec[i] <= vec[j]

\* Vec::binary_search: Ok(i) (0-based) for an element equal to x, or Err.
\* On a sorted vector the search finds x exactly when it is there, and may
\* answer with any matching position.  On a vector that is not sorted the
\* answer is unspecified: it may miss an element that is there, but it
\* never answers Ok for a position that does not hold x.
binary_search(vec, x) ==
    LET hits == {[ok |-> TRUE, index |-> i - 1] : i \in {j \in 1 .. Len(vec) : vec[j] = x}}
        miss == {[ok |-> FALSE, index |-> 0]}
    IN  IF IsSorted(vec)
        THEN IF hits # {} THEN hits ELSE miss
        ELSE hits \cup miss

\* Map::set(key, value), Map::remove(key); a Map is a function.
map_set(m, k, v) == [x \in (DOMAIN m) \cup {k} |-> IF x = k THEN v ELSE m[x]]
map_remove(m, k) == [x \in (DOMAIN m) \ {k} |-> m[x]]
EmptyMap == << >>

\* ---------------------------------------------------- impl System for World
World_add_system(self, query, system) ==
    [self EXCEPT !.systems = map_set(self.systems, query, system)]

World_remove_system(self, query) ==
    [self EXCEPT !.systems = map_remove(self.systems, query)]

\* ------------------------------------------- impl Registered for Register
\* The Register the code starts from when the key was never set.
Register_default == [counter |-> 0, addresses |-> << >>, map |-> EmptyMap]

\* Register::register: reads the stored Register (or the default), updates
\* the local copy and returns the bit.  The local copy is dropped: the
\* function never writes DataKey::Register, so the storage after the call
\* (field Register) is the storage before it.  Bitmap is u128; the counter
\* read is the stored one, so 1 << counter stays far inside the width here.
Register_register(reg, address) ==
    LET loaded == IF reg = None THEN Register_default ELSE reg[1]
    IN  IF ~contains(loaded.addresses, address)
        THEN LET counter == loaded.counter + 1
                 register == [counter |-> counter,
                              addresses |-> Append(loaded.addresses, address),
                              map |-> map_set(loaded.map, counter, address)]
             IN  [ret |-> Some(2 ^ counter), register |-> register, Register |-> reg]
        ELSE [ret |-> None, register |-> loaded, Register |-> reg]

\* Register::unregister: panics when no Register is stored; otherwise
\* removes the address from the local copy where binary_search finds it.
\* The local copy is dropped here too.  local is the set of values the
\* local copy can end with.
Register_unregister(reg, address) ==
    IF reg = None
    THEN [panic |-> TRUE, local |-> {}, Register |-> reg]
    ELSE LET register == reg[1]
             after(found) ==
                 IF found.ok
                 THEN [register EXCEPT !.addresses = remove(register.addresses, found.index)]
                 ELSE register
         IN  [panic |-> FALSE,
              local |-> {after(found) : found \in binary_search(register.addresses, address)},
              Register |-> reg]

\* ----------------------------------------------------------- impl World
\* The for loop of World::spawn, from component i on.  acc carries bitmap,
\* filtered_components, the storage under DataKey::Register, and the values
\* register returned so far.
RECURSIVE spawn_loop(_, _, _)
spawn_loop(components, i, acc) ==
    IF i > Len(components)
    THEN acc
    ELSE LET r == Register_register(acc.Register, components[i])
             a == r.ret
         IN  spawn_loop(components, i + 1,
                 [bitmap |-> IF a # None
                             THEN (IF acc.bitmap = None
                                   THEN Some(a[1])
                                   ELSE Some(a[1] + acc.bitmap[1]))
                             ELSE acc.bitmap,
                  filtered_components |-> IF a # None
                                          THEN Append(acc.filtered_components, components[i])
                                          ELSE acc.filtered_components,
                  Register |-> r.Register,
                  rets |-> Append(acc.rets, a)])

\* A spawn that stores the entity under the counter as it was and
\* increments the counter afterwards.
World_spawn_stale_id(self, reg, components) ==
    LET done == spawn_loop(components, 1,
                    [bitmap |-> None, filtered_components |-> << >>,
                     Register |-> reg, rets |-> << >>])
    IN  IF done.bitmap # None
        THEN [updated |-> TRUE,
              world |-> [self EXCEPT
                            !.counter = self.counter + 1,
                            !.entities = map_set(self.entities, self.counter,
                                << done.bitmap[1], done.filtered_components >>)],
              filtered_components |-> done.filtered_components,
              Register |-> done.Register,
              rets |-> done.rets]
        ELSE [updated |-> FALSE, world |-> self,
              filtered_components |-> done.filtered_components,
              Register |-> done.Register, rets |-> done.rets]

\* World::spawn: (updated, self), with the storage under DataKey::Register
\* after the register calls and the values they returned.
World_spawn(self, reg, components) ==
    LET done == spawn_loop(components, 1,
                    [bitmap |-> None, filtered_components |-> << >>,
                     Register |-> reg, rets |-> << >>])
    IN  IF done.bitmap # None
        THEN LET counter == self.counter + 1
             IN  [updated |-> TRUE,
                  world |-> [self EXCEPT
                                !.counter = counter,
                                !.entities = map_set(self.entities, counter,
                                    << done.bitmap[1], done.filtered_components >>)],
                  filtered_components |-> done.filtered_components,
                  Register |-> done.Register,
                  rets |-> done.rets]
        ELSE [updated |-> FALSE, world |-> self,
              filtered_components |-> done.filtered_components,
              Register |-> done.Register, rets |-> done.rets]

\* World::despawn: unregisters the component and returns self as it was.
World_despawn(self, reg, component) ==
    LET u == Register_unregister(reg, component)
    IN  [panic |-> u.panic, world |-> self, Register |-> u.Register]

\* ------------------------------------------------------------- Contract
\* Contract::check_genesis
check_genesis == IF Genesis = None THEN FALSE ELSE Genesis[1]

\* The record of a call, for the properties.
CallRecord(op, name, components, address, query, result, rets, scenario, system_calls) ==
    [op |-> op, name |-> name, components |-> components, address |-> address,
     query |-> query, result |-> result, rets |-> rets, scenario |-> scenario,
     system_calls |-> system_calls]

\* The trace genesis("alpha"); spawn([X, Y]); spawn([X]); despawn(X), for
\* the addresses X = 1 and Y = 2.
ScenarioTrace ==
    << [op |-> "genesis", name |-> "alpha", components |-> << >>, address |-> 0],
       [op |-> "spawn", name |-> "", components |-> << 1, 2 >>, address |-> 0],
       [op |-> "spawn", name |-> "", components |-> << 1 >>, address |-> 0],
       [op |-> "despawn", name |-> "", components |-> << >>, address |-> 1] >>

\* History: how many calls of ScenarioTrace were made, when the calls made
\* since the contract was deployed are exactly its first ones; -1 otherwise.
ScenarioStep(s, op, name, components, address) ==
    IF /\ s >= 0
       /\ s < Len(ScenarioTrace)
       /\ ScenarioTrace[s + 1] =
            [op |-> op, name |-> name, components |-> components, address |-> address]
    THEN s + 1
    ELSE -1

\* The trace genesis("alpha"); add_system(Q, h); add_system(Q2, h2);
\* remove_system(Q), for the queries Q = 1 and Q2 = 2 and the handlers
\* h = 1 and h2 = 2.
SystemsTrace ==
    << [op |-> "genesis", name |-> "alpha", address |-> 0, query |-> 0],
       [op |-> "add_system", name |-> "", address |-> 1, query |-> 1],
       [op |-> "add_system", name |-> "", address |-> 2, query |-> 2],
       [op |-> "remove_system", name |-> "", address |-> 0, query |-> 1] >>

\* History: how many calls of SystemsTrace were made, when the calls made
\* since the contract was deployed are exactly its first ones; -1 otherwise.
SystemsStep(s, op, name, address, query) ==
    IF /\ s >= 0
       /\ s < Len(SystemsTrace)
       /\ SystemsTrace[s + 1] =
            [op |-> op, name |-> name, address |-> address, query |-> query]
    THEN s + 1
    ELSE -1

Call(op, name, components, address, query, result, rets) ==
    CallRecord(op, name, components, address, query, result, rets,
               ScenarioStep(last.scenario, op, name, components, address),
               SystemsStep(last.system_calls, op, name, address, query))

\* The World genesis stores; name.to_string() keeps the characters of name.
NewWorld(name) ==
    [name |-> name, counter |-> 0, entities |-> EmptyMap, systems |-> EmptyMap]

Init ==
    /\ Genesis = None
    /\ World = None
    /\ Register = None
    /\ last = CallRecord("none", "", << >>, 0, 0, "ok", << >>, 0, 0)
    /\ owned = {}
    /\ issued = << >>

\* A genesis that does not look at the flag.
genesis_unguarded(name) ==
    /\ Genesis' = Some(TRUE)
    /\ World' = Some(NewWorld(name))
    /\ last' = Call("genesis", name, << >>, 0, 0, "ok", << >>)
    /\ UNCHANGED << Register, owned, issued >>

\* A genesis that sets the flag and does not store the World.
genesis_flag_only(name) ==
    /\ IF ~check_genesis
       THEN /\ Genesis' = Some(TRUE)
            /\ World' = World
       ELSE UNCHANGED << Genesis, World >>
    /\ last' = Call("genesis", name, << >>, 0, 0, "ok", << >>)
    /\ UNCHANGED << Register, owned, issued >>

\* Contract::genesis
genesis(name) ==
    /\ IF ~check_genesis
       THEN /\ Genesis' = Some(TRUE)
            /\ World' = Some(NewWorld(name))
       ELSE UNCHANGED << Genesis, World >>
    /\ last' = Call("genesis", name, << >>, 0, 0, "ok", << >>)
    /\ UNCHANGED << Register, owned, issued >>

\* Contract::get_world: returns the stored World, panics when there is none.
get_world ==
    /\ last' = Call("get_world", "", << >>, 0, 0,
                    IF World = None THEN "panic" ELSE "ok", << >>)
    /\ UNCHANGED << Genesis, World, Register, owned, issued >>

\* A spawn that does not look at the genesis flag.
Contract_spawn_unguarded(components) ==
    IF World = None
    THEN [result |-> "panic", World |-> World, Register |-> Register,
          rets |-> << >>, got |-> {}]
    ELSE LET s == World_spawn(World[1], Register, components)
         IN  [result |-> "ok",
              World |-> IF s.updated THEN Some(s.world) ELSE World,
              Register |-> s.Register,
              rets |-> s.rets,
              got |-> {s.filtered_components[i] :
                          i \in 1 .. Len(s.filtered_components)}]

\* What Contract::spawn leaves in the storage and returns to the host.
Contract_spawn(components) ==
    IF check_genesis
    THEN IF World = None
         THEN [result |-> "panic", World |-> World, Register |-> Register,
               rets |-> << >>, got |-> {}]
         ELSE LET s == World_spawn(World[1], Register, components)
              IN  [result |-> "ok",
                   World |-> IF s.updated THEN Some(s.world) ELSE World,
                   Register |-> s.Register,
                   rets |-> s.rets,
                   got |-> {s.filtered_components[i] :
                               i \in 1 .. Len(s.filtered_components)}]
    ELSE [result |-> "ok", World |-> World, Register |-> Register,
          rets |-> << >>, got |-> {}]

\* The bits among the values register returned: the Some(bit) ones.
bits(rets) == [i \in 1 .. Len(SelectSeq(rets, LAMBDA r : r # None)) |->
                  SelectSeq(rets, LAMBDA r : r # None)[i][1]]

\* Contract::spawn, called while it issues no more than max bits in all.
spawn_within(components, max) ==
    LET c == Contract_spawn(components)
    IN  /\ Len(issued) + Len(bits(c.rets)) <= max
        /\ World' = c.World
        /\ Register' = c.Register
        /\ owned' = owned \cup c.got
        /\ issued' = issued \o bits(c.rets)
        /\ last' = Call("spawn", "", components, 0, 0, c.result, c.rets)
        /\ UNCHANGED Genesis

\* Contract::spawn
spawn(components) == spawn_within(components, MaxIssued)

\* A despawn that, instead of unregistering the component, deletes the
\* entities whose component list holds it and stores the World.
Contract_despawn_entities(component) ==
    IF check_genesis
    THEN IF World = None
         THEN [result |-> "panic", World |-> World, Register |-> Register]
         ELSE LET keep == {id \in DOMAIN World[1].entities :
                              ~contains(World[1].entities[id][2], component)}
              IN  [result |-> "ok",
                   World |-> Some([World[1] EXCEPT
                                     !.entities = [id \in keep |-> World[1].entities[id]]]),
                   Register |-> Register]
    ELSE [result |-> "ok", World |-> World, Register |-> Register]

\* What Contract::despawn leaves in the storage and returns to the host:
\* the World that World::despawn returns is dropped.
Contract_despawn(component) ==
    IF check_genesis
    THEN IF World = None
         THEN [result |-> "panic", World |-> World, Register |-> Register]
         ELSE LET d == World_despawn(World[1], Register, component)
              IN  IF d.panic
                  THEN [result |-> "panic", World |-> World, Register |-> Register]
                  ELSE [result |-> "ok", World |-> World, Register |-> d.Register]
    ELSE [result |-> "ok", World |-> World, Register |-> Register]

\* Contract::despawn
despawn(component) ==
    LET c == Contract_despawn(component)
    IN  /\ World' = c.World
        /\ Register' = c.Register
        /\ owned' = IF check_genesis /\ c.result = "ok"
                    THEN owned \ {component}
                    ELSE owned
        /\ last' = Call("despawn", "", << >>, component, 0, c.result, << >>)
        /\ UNCHANGED << Genesis, issued >>

\* What Contract::add_system leaves in the storage: the World that
\* World::add_system returns is dropped, DataKey::World is not written.
Contract_add_system(query, system) ==
    IF check_genesis
    THEN IF World = None
         THEN [result |-> "panic", World |-> World]
         ELSE LET world == World_add_system(World[1], query, system)
              IN  [result |-> "ok", World |-> World, dropped |-> world]
    ELSE [result |-> "ok", World |-> World]

\* Contract::add_system
add_system(query, system) ==
    LET c == Contract_add_system(query, system)
    IN  /\ World' = c.World
        /\ last' = Call("add_system", "", << >>, system, query, c.result, << >>)
        /\ UNCHANGED << Genesis, Register, owned, issued >>

\* What Contract::remove_system leaves in the storage: the World that
\* World::remove_system returns is dropped, DataKey::World is not written.
Contract_remove_system(query) ==
    IF check_genesis
    THEN IF World = None
         THEN [result |-> "panic", World |-> World]
         ELSE LET world == World_remove_system(World[1], query)
              IN  [result |-> "ok", World |-> World, dropped |-> world]
    ELSE [result |-> "ok", World |-> World]

\* Contract::remove_system
remove_system(query) ==
    LET c == Contract_remove_system(query)
    IN  /\ World' = c.World
        /\ last' = Call("remove_system", "", << >>, 0, query, c.result, << >>)
        /\ UNCHANGED << Genesis, Register, owned, issued >>

Next ==
    \/ \E name \in Names : genesis(name)
    \/ get_world
    \/ \E components \in ComponentVecs : spawn(components)
    \/ \E component \in Addresses : despawn(component)
    \/ \E query \in Queries, system \in Addresses : add_system(query, system)
    \/ \E query \in Queries : remove_system(query)

Spec == Init /\ [][Next]_vars

\* ------------------------------------------------------------- capacity
\* type Bitmap = u128: the width of the bitmap.
BitmapWidth == 128

\* Contract::spawn with one address that was never passed before, until
\* BitmapWidth bits were issued.
spawn_new == spawn_within(<< Len(issued) + 1 >>, BitmapWidth)

\* The calls that fill the bitmap: genesis, and spawns of a new address each.
NextCapacity ==
    \/ \E name \in Names : genesis(name)
    \/ spawn_new

SpecCapacity == Init /\ [][NextCapacity]_vars

\* ------------------------------------------------------------ properties
\* Bitwise OR of two naturals.
RECURSIVE BitOr(_, _)
BitOr(x, y) ==
    IF x = 0 THEN y
    ELSE IF y = 0 THEN x
    ELSE (IF x % 2 = 1 \/ y % 2 = 1 THEN 1 ELSE 0) + 2 * BitOr(x \div 2, y \div 2)

\* x has exactly one bit set.
RECURSIVE IsSingleBit(_)
IsSingleBit(x) == x = 1 \/ (x > 1 /\ x % 2 = 0 /\ IsSingleBit(x \div 2))

\* The entity the World stores under its counter, and its parts.
NewestEntity(w) == w[1].entities[w[1].counter]

\* C1 (OR-composition): after genesis, spawn([A, B]) with A and B both not
\* registered stores a new entity whose bitmask is bit(A) | bit(B), two
\* distinct bits, and whose component list is [A, B]; with A registered by an
\* earlier spawn and B not, it stores a new entity with bitmask bit(B) and
\* component list [B].
C1_OrComposition ==
    [][\A A, B \in Addresses :
        (/\ A # B
         /\ check_genesis
         /\ last'.op = "spawn"
         /\ last'.components = << A, B >>
         /\ B \notin owned)
        => /\ World'[1].counter = World[1].counter + 1
           /\ last'.rets[2] # None
           /\ IF A \notin owned
              THEN /\ last'.rets[1] # None
                   /\ IsSingleBit(last'.rets[1][1])
                   /\ IsSingleBit(last'.rets[2][1])
                   /\ last'.rets[1][1] # last'.rets[2][1]
                   /\ NewestEntity(World') =
                        << BitOr(last'.rets[1][1], last'.rets[2][1]), << A, B >> >>
              ELSE /\ last'.rets[1] = None
                   /\ NewestEntity(World') = << last'.rets[2][1], << B >> >>
      ]_vars

\* C2 (register idempotence): register(a) called twice in succession, as
\* spawn([a, a]) does for an address a that is not registered, returns a bit
\* the first time and none the second time, and the second call leaves the
\* stored Register as the first left it.
C2_RegisterIdempotent ==
    [][\A a \in Addresses :
        (/\ check_genesis
         /\ last'.op = "spawn"
         /\ last'.components = << a, a >>
         /\ a \notin owned)
        => /\ last'.rets[1] # None
           /\ last'.rets[2] = None
           /\ Register_register(Register_register(Register, a).Register, a).Register
                = Register'
      ]_vars

\* C3 (monotonic allocation): over any sequence of operations the bits issued
\* by successive successful registrations are strictly increasing (so none is
\* issued twice), and bit index 0 (the value 1) is never issued.
C3_MonotonicAllocation ==
    /\ \A i, j \in 1 .. Len(issued) : i < j => issued[i] < issued[j]
    /\ \A i \in 1 .. Len(issued) : IsSingleBit(issued[i]) /\ issued[i] # 1

\* C4 (no-op spawn): after genesis, a spawn whose input is empty or names
\* only addresses that are registered (by earlier spawns, not despawned
\* since) creates no entity and leaves the stored World as it was.
C4_NoOpSpawn ==
    [][(/\ check_genesis
        /\ last'.op = "spawn"
        /\ \A i \in 1 .. Len(last'.components) : last'.components[i] \in owned)
       => /\ last'.result = "ok"
          /\ World' = World
      ]_vars

\* The vector vec without the element a, the others in their order.
Without(vec, a) == SelectSeq(vec, LAMBDA x : x # a)

\* C5 (despawn removes a registered address): after genesis, despawn(a) for
\* a registered address a completes and leaves a Register whose address list
\* is the one before without a, the other addresses in their order.
C5_DespawnRemoves ==
    [][\A a \in Addresses :
        (/\ check_genesis
         /\ last'.op = "despawn"
         /\ last'.address = a
         /\ a \in owned)
        => /\ last'.result = "ok"
           /\ Register' # None
           /\ ~contains(Register'[1].addresses, a)
           /\ Register # None
           /\ Register'[1].addresses = Without(Register[1].addresses, a)
      ]_vars

\* C6 (despawn leaves the World unchanged): a despawn call, whatever the
\* address and the state, leaves the stored World as it was.
C6_DespawnKeepsWorld ==
    [][last'.op = "despawn" => World' = World]_vars

\* A despawn was called after genesis for an address that is in the
\* component list of a stored entity.
C6_Witness ==
    /\ last.op = "despawn"
    /\ check_genesis
    /\ \E id \in DOMAIN World[1].entities :
          contains(World[1].entities[id][2], last.address)

\* C7 (system overwrite): after genesis, add_system(Q, h1) followed by
\* add_system(Q, h2) with h1 # h2 leaves the stored World, the one get_world
\* returns, with systems[Q] = h2; the entries under other queries, the
\* entities and the counter are unchanged.
C7_SystemOverwrite ==
    [][(/\ check_genesis
        /\ last.op = "add_system"
        /\ last'.op = "add_system"
        /\ last'.query = last.query
        /\ last'.address # last.address)
       => /\ last'.result = "ok"
          /\ last'.query \in DOMAIN World'[1].systems
          /\ World'[1].systems[last'.query] = last'.address
          /\ \A q \in (DOMAIN World[1].systems) \ {last'.query} :
                /\ q \in DOMAIN World'[1].systems
                /\ World'[1].systems[q] = World[1].systems[q]
          /\ World'[1].entities = World[1].entities
          /\ World'[1].counter = World[1].counter
      ]_vars

\* C8 (remove_system removes exactly one entry): after genesis,
\* add_system(Q, h) and add_system(Q2, h2) with Q2 # Q, the systems have an
\* entry for Q; remove_system(Q) then completes and leaves the stored World
\* with no entry for Q and with the other entry, systems[Q2] = h2, as it was.
C8_RemoveSystem ==
    /\ last.system_calls > 0 => last.result = "ok"
    /\ last.system_calls = Len(SystemsTrace)
       => /\ World # None
          /\ 1 \notin DOMAIN World[1].systems
          /\ DOMAIN World[1].systems = {2}
          /\ World[1].systems[2] = 2

\* C9 (genesis happens once): the first genesis(name) sets the flag and
\* stores a World with that name, counter 0, no entities and no systems;
\* every later genesis call leaves the storage as it was; and no step of any
\* operation changes the name of a stored World.
C9_GenesisOnce ==
    [][/\ last'.op = "genesis"
          => IF ~check_genesis
             THEN /\ Genesis' = Some(TRUE)
                  /\ World' = Some([name |-> last'.name, counter |-> 0,
                                    entities |-> EmptyMap, systems |-> EmptyMap])
                  /\ Register' = Register
             ELSE UNCHANGED << Genesis, World, Register >>
       /\ World # None => (World' # None /\ World'[1].name = World[1].name)
      ]_vars

\* genesis was called with another name on a World that has entities.
C9_Witness ==
    /\ last.op = "genesis"
    /\ World # None
    /\ World[1].name # last.name
    /\ World[1].counter > 0

\* C10 (pre-genesis guard): while genesis has not run, spawn, despawn,
\* add_system and remove_system complete and leave the storage as it was, and
\* get_world fails.
C10_PreGenesisGuard ==
    [][~check_genesis
       => /\ last'.op \in {"spawn", "despawn", "add_system", "remove_system"}
             => /\ last'.result = "ok"
                /\ UNCHANGED << Genesis, World, Register >>
          /\ last'.op = "get_world" => last'.result = "panic"
      ]_vars

\* spawn was called with components before genesis.
C10_Witness ==
    /\ ~check_genesis
    /\ last.op = "spawn"
    /\ last.components # << >>
    /\ World = None

\* C11 (capacity exhaustion): once BitmapWidth - 1 bits have been issued, a
\* spawn that names an address that is not registered fails, and leaves the
\* stored World and Register as they were.
C11_CapacityExhaustion ==
    [][(/\ check_genesis
        /\ Len(issued) >= BitmapWidth - 1
        /\ last'.op = "spawn"
        /\ \E i \in 1 .. Len(last'.components) : last'.components[i] \notin owned)
       => /\ last'.result = "panic"
          /\ UNCHANGED << Genesis, World, Register >>
      ]_vars

\* C12 (despawn fails only when no Register exists): after genesis,
\* despawn(a) fails exactly when no registration has occurred so far, and a
\* failed despawn leaves the storage as it was.
C12_DespawnFailsOnlyUnregistered ==
    [][(check_genesis /\ last'.op = "despawn")
       => /\ (last'.result = "panic") <=> (issued = << >>)
          /\ last'.result = "panic" => UNCHANGED << Genesis, World, Register >>
      ]_vars

\* C13 (despawn of an absent address is a no-op): after genesis and after a
\* registration has occurred (so that a Register exists), despawn(a) for an
\* address a that is not registered completes and leaves the storage as it
\* was.
C13_DespawnAbsentNoOp ==
    [][(/\ check_genesis
        /\ issued # << >>
        /\ last'.op = "despawn"
        /\ last'.address \notin owned)
       => /\ last'.result = "ok"
          /\ UNCHANGED << Genesis, World, Register >>
      ]_vars

\* C14 (end-to-end scenario): the trace genesis("alpha"); spawn([X, Y]);
\* spawn([X]); despawn(X) runs without a failed call and ends with a World
\* named "alpha" that holds exactly one entity, id 1, with bitmask 6 and
\* component list [X, Y], and with a Register that lists Y and not X.
C14_Scenario ==
    /\ last.scenario > 0 => last.result = "ok"
    /\ last.scenario = Len(ScenarioTrace)
       => /\ World # None
          /\ World[1].name = "alpha"
          /\ DOMAIN World[1].entities = {1}
          /\ World[1].entities[1] = << 6, << 1, 2 >> >>
          /\ Register # None
          /\ ~contains(Register[1].addresses, 1)
          /\ contains(Register[1].addresses, 2)

\* The vector vec holds no element twice.
NoDuplicates(vec) == \A i, j \in 1 .. Len(vec) : vec[i] = vec[j] => i = j

\* C15 (single-use component address): the stored Register lists no address
\* twice, and a spawn that creates an entity puts into its component list no
\* address that is registered (one that an earlier spawn put into an entity
\* and that was not despawned since).
C15_SingleUseAddress ==
    [][/\ Register' # None => NoDuplicates(Register'[1].addresses)
       /\ (check_genesis /\ last'.op = "spawn" /\ World' # World)
          => \A a \in owned : ~contains(NewestEntity(World')[2], a)
      ]_vars

\* C16 (entity ids are monotonic and never reused): the counter starts at 0
\* and never decreases; a spawn that creates an entity increases it by 1
\* and stores the entity under the new value, which held no entity; no step
\* removes or changes a stored entity; the keys of the entity table are
\* 1 .. counter.
C16_EntityIds ==
    [][/\ (World = None /\ World' # None)
          => (World'[1].counter = 0 /\ DOMAIN World'[1].entities = {})
       /\ World # None
          => /\ World' # None
             /\ World'[1].counter >= World[1].counter
             /\ \A id \in DOMAIN World[1].entities :
                   /\ id \in DOMAIN World'[1].entities
                   /\ World'[1].entities[id] = World[1].entities[id]
             /\ IF last'.op = "spawn" /\ last'.rets # << >> /\ bits(last'.rets) # << >>
                THEN /\ World'[1].counter = World[1].counter + 1
                     /\ World'[1].counter \notin DOMAIN World[1].entities
                     /\ DOMAIN World'[1].entities =
                          (DOMAIN World[1].entities) \cup {World'[1].counter}
                ELSE /\ World'[1].counter = World[1].counter
                     /\ DOMAIN World'[1].entities = DOMAIN World[1].entities
       /\ World' # None
          => DOMAIN World'[1].entities = 1 .. World'[1].counter
      ]_vars

\* A second entity was stored, under id 2, by a spawn.
C16_Witness ==
    /\ last.op = "spawn"
    /\ World # None
    /\ World[1].counter = 2
    /\ DOMAIN World[1].entities = {1, 2}

\* C17 (duplicate address inside one spawn call): spawn([A, A]) with A not
\* registered gets a bit for the first A only, consumes one bit, and stores
\* what spawn([A]) would have stored: a new entity with component list [A]
\* and bitmask bit(A).
C17_DuplicateInOneSpawn ==
    [][\A A \in Addresses :
        (/\ check_genesis
         /\ last'.op = "spawn"
         /\ last'.components = << A, A >>
         /\ A \notin owned)
        => /\ last'.rets[1] # None
           /\ last'.rets[2] = None
           /\ Len(issued') = Len(issued) + 1
           /\ World'[1].counter = World[1].counter + 1
           /\ NewestEntity(World') = << last'.rets[1][1], << A >> >>
           /\ World' = Contract_spawn(<< A >>).World
      ]_vars

\* C18 (genesis flag and World agree): in every reachable state the genesis
\* flag is set exactly when a World is stored; so get_world succeeds exactly
\* when genesis has run, spawn, add_system and remove_system never fail, and
\* a despawn that fails found its World and failed for want of a Register.
C18_GenesisWorldAgree ==
    /\ check_genesis <=> World # None
    /\ last.op = "get_world" => ((last.result = "ok") <=> check_genesis)
    /\ last.op \in {"spawn", "add_system", "remove_system"} => last.result = "ok"
    /\ (last.op = "despawn" /\ last.result = "panic")
       => (check_genesis /\ World # None /\ Register = None)

\* A call failed after genesis, on a World that has entities.
C18_Witness ==
    /\ check_genesis
    /\ World # None
    /\ World[1].counter > 0
    /\ last.op = "despawn"
    /\ last.result = "panic"

\* The index of the highest bit set in x > 0.
RECURSIVE BitIndex(_)
BitIndex(x) == IF x <= 1 THEN 0 ELSE 1 + BitIndex(x \div 2)

\* Bitwise OR of the elements of a vector.
RECURSIVE OrAll(_)
OrAll(vec) == IF vec = << >> THEN 0 ELSE BitOr(Head(vec), OrAll(Tail(vec)))

\* C19 (addition equals OR in spawn): in every spawn call after genesis the
\* bits register returned are single bits inside the bitmap width and
\* pairwise distinct, so that the bitmask spawn stores, their sum, is their
\* bitwise OR.
C19_AdditionIsOr ==
    (check_genesis /\ last.op = "spawn" /\ last.result = "ok")
    => LET b == bits(last.rets)
       IN  /\ \A i \in 1 .. Len(b) : IsSingleBit(b[i]) /\ BitIndex(b[i]) < BitmapWidth
           /\ \A i, j \in 1 .. Len(b) : i # j => b[i] # b[j]
           /\ b # << >> => NewestEntity(World)[1] = OrAll(b)

\* The indices of the bits set in x, counted from k for the lowest.
RECURSIVE SetBits(_, _)
SetBits(x, k) ==
    IF x = 0 THEN {}
    ELSE (IF x % 2 = 1 THEN {k} ELSE {}) \cup SetBits(x \div 2, k + 1)

\* C20 (stored entities are well-formed): every stored entity has a
\* component list that is not empty and holds no address twice, a bitmask
\* that is not zero and has bit 0 clear, and as many bits set as it has
\* components; two different entities have no set bit in common.
C20_EntitiesWellFormed ==
    World # None
    => /\ \A id \in DOMAIN World[1].entities :
             LET bitmap == World[1].entities[id][1]
                 components == World[1].entities[id][2]
             IN  /\ components # << >>
                 /\ NoDuplicates(components)
                 /\ bitmap # 0
                 /\ 0 \notin SetBits(bitmap, 0)
                 /\ Cardinality(SetBits(bitmap, 0)) = Len(components)
       /\ \A id1, id2 \in DOMAIN World[1].entities :
             id1 # id2
             => SetBits(World[1].entities[id1][1], 0)
                  \cap SetBits(World[1].entities[id2][1], 0) = {}

====
